---- MODULE Spec2Model ----
(***************************************************************************)
(* Maximum Weight Independent Set on a series-parallel composition tree:   *)
(* the C++ program of src/unnamed/part_000 (read_tree, toNiceTree,         *)
(* build_graph, dp_solve, backtrack, solve_mwis, main).                    *)
(*                                                                         *)
(* The tree description is a stream of characters, parsed as the istream   *)
(* extractions of read_tree parse it. The weight file is a sequence of     *)
(* integers. main is a state machine over its statements; the recursive    *)
(* functions are recursive operators that thread the tables they mutate.   *)
(***************************************************************************)
EXTENDS Integers, Sequences, FiniteSets, TLC

(***************************************************************************)
(* Bounds of the inputs.                                                   *)
(***************************************************************************)
\* vertex ids written in the generated tree descriptions are 0..MaxId
MaxId == 2
\* weights of the generated weight files are MinWeight..MaxWeight
MaxWeight == 2
MinWeight == 0 - 1
\* the largest increase of one weight tried by the monotonicity property
MaxDelta == 2

Ids == 0..MaxId
WeightVals == MinWeight..MaxWeight

Max2(p, q) == IF p >= q THEN p ELSE q

RECURSIVE SumSeq(_)
SumSeq(s) == IF s = <<>> THEN 0 ELSE Head(s) + SumSeq(Tail(s))

Range(s) == {s[i] : i \in DOMAIN s}

(***************************************************************************)
(* The composition tree: class leaf, class parallel, class series, and the *)
(* null pointer.                                                           *)
(***************************************************************************)
Null == [tag |-> "null"]
Leaf(x, y) == [tag |-> "L", x |-> x, y |-> y]
Parallel(a, b, left, right) ==
    [tag |-> "P", a |-> a, b |-> b, left |-> left, right |-> right]
Series(a, b, c, left, right) ==
    [tag |-> "S", a |-> a, b |-> b, c |-> c, left |-> left, right |-> right]

(***************************************************************************)
(* The character stream of the tree file. Characters are strings of        *)
(* length one; pos is the index of the next unread character; fail is the  *)
(* stream's failbit.                                                       *)
(***************************************************************************)
DigitChars == <<"0", "1", "2", "3", "4", "5", "6", "7", "8", "9">>
IsDigit(ch) == \E i \in DOMAIN DigitChars : DigitChars[i] = ch
DigitVal(ch) == (CHOOSE i \in DOMAIN DigitChars : DigitChars[i] = ch) - 1

OpenStream(text) == [buf |-> text, pos |-> 1, fail |-> FALSE]

\* an extraction that does not skip the white space before a token
SkipWs_stay(buf, p) == p

RECURSIVE SkipWs(_, _)
SkipWs(buf, p) ==
    IF p <= Len(buf) /\ buf[p] = " " THEN SkipWs(buf, p + 1) ELSE p

\* in >> c for a char c: skips white space and reads one character. On a
\* failed stream or at the end of the stream c keeps its old value.
GetChar(in, c) ==
    IF in.fail THEN [in |-> in, val |-> c]
    ELSE LET p == SkipWs(in.buf, in.pos) IN
         IF p > Len(in.buf)
         THEN [in |-> [in EXCEPT !.pos = p, !.fail = TRUE], val |-> c]
         ELSE [in |-> [in EXCEPT !.pos = p + 1], val |-> in.buf[p]]

RECURSIVE DigitsEnd(_, _)
DigitsEnd(buf, p) ==
    IF p <= Len(buf) /\ IsDigit(buf[p]) THEN DigitsEnd(buf, p + 1) ELSE p

RECURSIVE DigitsValue(_, _, _, _)
DigitsValue(buf, p, q, acc) ==
    IF p >= q THEN acc
    ELSE DigitsValue(buf, p + 1, q, 10 * acc + DigitVal(buf[p]))

\* in >> x for an int x: skips white space and reads a run of digits (the
\* descriptions hold unsigned ids only). On a failed stream or at the end
\* of the stream x keeps its old value; when the next character is no
\* digit the extraction fails and stores 0.
GetInt(in, x) ==
    IF in.fail THEN [in |-> in, val |-> x]
    ELSE LET p == SkipWs(in.buf, in.pos)
             q == DigitsEnd(in.buf, p)
         IN  IF p > Len(in.buf)
             THEN [in |-> [in EXCEPT !.pos = p, !.fail = TRUE], val |-> x]
             ELSE IF q = p
             THEN [in |-> [in EXCEPT !.pos = p, !.fail = TRUE], val |-> 0]
             ELSE [in |-> [in EXCEPT !.pos = q],
                   val |-> DigitsValue(in.buf, p, q, 0)]

(***************************************************************************)
(* read_tree. g is the indeterminate content of the locals c, x, y, z,     *)
(* which read_tree declares without an initial value: g.c for the char,    *)
(* g.i for the ints. They are read only when an extraction failed.         *)
(***************************************************************************)
RECURSIVE read_tree(_, _, _)
\* line 106 with the update of the parallel case (line 94): c is left out
read_tree_series_ab(in, next_vertex, g) ==
    LET c1 == GetChar(in, g.c) IN
    IF c1.val # "("
    THEN [node |-> Null, in |-> c1.in, next_vertex |-> next_vertex]
    ELSE
    LET c2 == GetChar(c1.in, c1.val) IN
    CASE c2.val = "L" ->
           LET x == GetInt(c2.in, g.i)
               y == GetInt(x.in, g.i)
               c3 == GetChar(y.in, c2.val)
           IN  [node |-> Leaf(x.val, y.val),
                in |-> c3.in,
                next_vertex |-> Max2(next_vertex, Max2(x.val, y.val) + 1)]
      [] c2.val = "P" ->
           LET x == GetInt(c2.in, g.i)
               y == GetInt(x.in, g.i)
               l == read_tree(y.in, next_vertex, g)
               r == read_tree(l.in, l.next_vertex, g)
               c3 == GetChar(r.in, c2.val)
           IN  [node |-> Parallel(x.val, y.val, l.node, r.node),
                in |-> c3.in,
                next_vertex |->
                    Max2(r.next_vertex, Max2(x.val, y.val) + 1)]
      [] c2.val = "S" ->
           LET x == GetInt(c2.in, g.i)
               y == GetInt(x.in, g.i)
               z == GetInt(y.in, g.i)
               l == read_tree(z.in, next_vertex, g)
               r == read_tree(l.in, l.next_vertex, g)
               c3 == GetChar(r.in, c2.val)
           IN  [node |-> Series(x.val, y.val, z.val, l.node, r.node),
                in |-> c3.in,
                next_vertex |->
                    Max2(r.next_vertex, Max2(x.val, y.val) + 1)]
      [] OTHER -> [node |-> Null, in |-> c2.in, next_vertex |-> next_vertex]

read_tree(in, next_vertex, g) ==
    LET c1 == GetChar(in, g.c) IN
    IF c1.val # "("
    THEN [node |-> Null, in |-> c1.in, next_vertex |-> next_vertex]
    ELSE
    LET c2 == GetChar(c1.in, c1.val) IN
    CASE c2.val = "L" ->
           LET x == GetInt(c2.in, g.i)
               y == GetInt(x.in, g.i)
               c3 == GetChar(y.in, c2.val)
           IN  [node |-> Leaf(x.val, y.val),
                in |-> c3.in,
                next_vertex |-> Max2(next_vertex, Max2(x.val, y.val) + 1)]
      [] c2.val = "P" ->
           LET x == GetInt(c2.in, g.i)
               y == GetInt(x.in, g.i)
               l == read_tree(y.in, next_vertex, g)
               r == read_tree(l.in, l.next_vertex, g)
               c3 == GetChar(r.in, c2.val)
           IN  [node |-> Parallel(x.val, y.val, l.node, r.node),
                in |-> c3.in,
                next_vertex |->
                    Max2(r.next_vertex, Max2(x.val, y.val) + 1)]
      [] c2.val = "S" ->
           LET x == GetInt(c2.in, g.i)
               y == GetInt(x.in, g.i)
               z == GetInt(y.in, g.i)
               l == read_tree(z.in, next_vertex, g)
               r == read_tree(l.in, l.next_vertex, g)
               c3 == GetChar(r.in, c2.val)
           IN  [node |-> Series(x.val, y.val, z.val, l.node, r.node),
                in |-> c3.in,
                next_vertex |->
                    Max2(r.next_vertex,
                         Max2(x.val, Max2(y.val, z.val)) + 1)]
      [] OTHER -> [node |-> Null, in |-> c2.in, next_vertex |-> next_vertex]

(***************************************************************************)
(* toNiceTree: rewrites the two child pointers of a parallel or series     *)
(* node with the result of the recursive calls and returns the node; every *)
(* dynamic_cast of a null pointer fails, so a null pointer yields null.    *)
(***************************************************************************)
RECURSIVE toNiceTree(_)
\* lines 119-120 with the children crossed: left from right, right from left
toNiceTree_crossed(t) ==
    CASE t.tag = "L" -> t
      [] t.tag = "P" ->
           [t EXCEPT !.left = toNiceTree(t.right),
                     !.right = toNiceTree(t.left)]
      [] t.tag = "S" ->
           [t EXCEPT !.left = toNiceTree(t.left),
                     !.right = toNiceTree(t.right)]
      [] OTHER -> Null

toNiceTree(t) ==
    CASE t.tag = "L" -> t
      [] t.tag = "P" ->
           [t EXCEPT !.left = toNiceTree(t.left),
                     !.right = toNiceTree(t.right)]
      [] t.tag = "S" ->
           [t EXCEPT !.left = toNiceTree(t.left),
                     !.right = toNiceTree(t.right)]
      [] OTHER -> Null

(***************************************************************************)
(* build_graph. The result is [ok, adj]: ok is FALSE when the walk calls a *)
(* method through a null pointer or indexes adj outside 0..N-1, which is   *)
(* undefined behaviour; adj is then the list built before that point.      *)
(***************************************************************************)
\* line 26 left out: the edge is entered at x only
leaf_build_graph_one_way(t, adj) ==
    IF t.x \in DOMAIN adj /\ t.y \in DOMAIN adj
    THEN [ok |-> TRUE, adj |-> [adj EXCEPT ![t.x] = Append(@, t.y)]]
    ELSE [ok |-> FALSE, adj |-> adj]

leaf_build_graph(t, adj) ==
    IF t.x \in DOMAIN adj /\ t.y \in DOMAIN adj
    THEN LET a1 == [adj EXCEPT ![t.x] = Append(@, t.y)]
         IN  [ok |-> TRUE, adj |-> [a1 EXCEPT ![t.y] = Append(@, t.x)]]
    ELSE [ok |-> FALSE, adj |-> adj]

RECURSIVE build_graph(_, _)
build_graph(t, adj) ==
    CASE t.tag = "L" -> leaf_build_graph(t, adj)
      [] t.tag \in {"P", "S"} ->
           LET l == build_graph(t.left, adj) IN
           IF l.ok THEN build_graph(t.right, l.adj) ELSE l
      [] OTHER -> [ok |-> FALSE, adj |-> adj]

(***************************************************************************)
(* dp_solve. st is the pair of tables the call mutates: st.dp (dp[v][0] is  *)
(* the value with v excluded, dp[v][1] with v included) and st.visited.    *)
(* dp_choice is passed along by the code but dp_solve never writes it. The *)
(* value dp_solve returns is discarded by both of its callers. st.log is   *)
(* the history of the pass: an event for every entry of a vertex (lines    *)
(* 135-137), every contribution of u to v (lines 142-143) and every return *)
(* from an entered vertex (line 147).                                      *)
(***************************************************************************)
Event(op, v, u) == [op |-> op, v |-> v, u |-> u]

\* lines 142-143 with -= in place of +=
dp_add_sub(st, v, u) ==
    [st EXCEPT !.dp[v][0] = @ - Max2(st.dp[u][0], st.dp[u][1]),
               !.dp[v][1] = @ - st.dp[u][0],
               !.log = Append(@, Event("add", v, u))]

\* lines 142-143 with the right-hand sides exchanged
dp_add_exchanged(st, v, u) ==
    [st EXCEPT !.dp[v][0] = @ + st.dp[u][0],
               !.dp[v][1] = @ + Max2(st.dp[u][0], st.dp[u][1]),
               !.log = Append(@, Event("add", v, u))]

\* lines 142-143: the contribution of the resolved neighbour u to v
dp_add(st, v, u) ==
    [st EXCEPT !.dp[v][0] = @ + Max2(st.dp[u][0], st.dp[u][1]),
               !.dp[v][1] = @ + st.dp[u][0],
               !.log = Append(@, Event("add", v, u))]

\* lines 136-137 with the weight of v written to both entries
dp_enter_both(st, v, weights) ==
    [st EXCEPT !.visited[v] = TRUE,
               !.dp[v] = [k \in 0..1 |-> weights[v]],
               !.log = Append(@, Event("enter", v, v))]

\* lines 135-137: entering v
dp_enter(st, v, weights) ==
    [st EXCEPT !.visited[v] = TRUE,
               !.dp[v] = [k \in 0..1 |-> IF k = 0 THEN 0 ELSE weights[v]],
               !.log = Append(@, Event("enter", v, v))]

\* line 147: the return from an entered vertex
dp_return(st, v) == [st EXCEPT !.log = Append(@, Event("return", v, v))]

RECURSIVE dp_solve(_, _, _, _), dp_loop(_, _, _, _, _)
\* lines 141-143 in the wrong order: the contribution of u is taken before
\* the call that resolves u
dp_loop_early(v, i, adj, weights, st) ==
    IF i > Len(adj[v]) THEN st
    ELSE LET u == adj[v][i] IN
         IF ~st.visited[u]
         THEN dp_loop(v, i + 1, adj, weights,
                      dp_solve(u, adj, weights, dp_add(st, v, u)))
         ELSE dp_loop(v, i + 1, adj, weights, st)

\* lines 140-144 without the test of line 140 on the contributions: a
\* neighbour that is visited already contributes what its entries hold
dp_loop_unguarded(v, i, adj, weights, st) ==
    IF i > Len(adj[v]) THEN st
    ELSE LET u == adj[v][i] IN
         IF ~st.visited[u]
         THEN dp_loop(v, i + 1, adj, weights,
                      dp_add(dp_solve(u, adj, weights, st), v, u))
         ELSE dp_loop(v, i + 1, adj, weights, dp_add(st, v, u))

\* lines 139-145: the loop over adj[v], from its i-th element on
dp_loop(v, i, adj, weights, st) ==
    IF i > Len(adj[v]) THEN st
    ELSE LET u == adj[v][i] IN
         IF ~st.visited[u]
         THEN dp_loop(v, i + 1, adj, weights,
                      dp_add(dp_solve(u, adj, weights, st), v, u))
         ELSE dp_loop(v, i + 1, adj, weights, st)

dp_solve(v, adj, weights, st) ==
    IF st.visited[v] THEN st
    ELSE dp_return(dp_loop(v, 1, adj, weights, dp_enter(st, v, weights)), v)

(***************************************************************************)
(* backtrack. ret is the vector the call returns: the vectors returned by  *)
(* the recursive calls are dropped by the code. calls lists the vertices   *)
(* backtrack was called on, in call order.                                 *)
(***************************************************************************)
RECURSIVE backtrack(_, _, _, _), backtrack_loop(_, _, _, _, _)
\* lines 157-161 and 164-168: the same loop in both branches
backtrack_loop(v, i, adj, dp_choice, visited) ==
    IF i > Len(adj[v]) THEN <<>>
    ELSE LET u == adj[v][i] IN
         (IF visited[u] /\ dp_choice[u][0]
          THEN backtrack(u, adj, dp_choice, visited).calls
          ELSE <<>>)
         \o backtrack_loop(v, i + 1, adj, dp_choice, visited)

\* line 155 with the test negated
backtrack_negated(v, adj, dp_choice, visited) ==
    [ret |-> IF ~dp_choice[v][1] THEN <<v>> ELSE <<>>,
     calls |-> <<v>> \o backtrack_loop(v, 1, adj, dp_choice, visited)]

backtrack(v, adj, dp_choice, visited) ==
    [ret |-> IF dp_choice[v][1] THEN <<v>> ELSE <<>>,
     calls |-> <<v>> \o backtrack_loop(v, 1, adj, dp_choice, visited)]

(***************************************************************************)
(* The nesting of the calls of backtrack (lines 151-172): the depth of the *)
(* deepest call under the call of v, which is itself at depth d. A call    *)
(* deeper than MaxDepth is not followed: a value above MaxDepth says the   *)
(* calls did not end within the bound.                                     *)
(***************************************************************************)
MaxDepth == 4

RECURSIVE backtrack_depth(_, _, _, _, _)
\* lines 159 and 165 without the test of the choice table
backtrack_depth_unguarded(v, adj, dp_choice, visited, d) ==
    IF d > MaxDepth THEN d
    ELSE LET below == {backtrack_depth(adj[v][i], adj, dp_choice, visited,
                                       d + 1) :
                          i \in {k \in DOMAIN adj[v] : visited[adj[v][k]]}}
         IN  IF below = {} THEN d
             ELSE CHOOSE m \in below : \A n \in below : n <= m

backtrack_depth(v, adj, dp_choice, visited, d) ==
    IF d > MaxDepth THEN d
    ELSE LET below == {backtrack_depth(adj[v][i], adj, dp_choice, visited,
                                       d + 1) :
                          i \in {k \in DOMAIN adj[v] :
                                    visited[adj[v][k]]
                                    /\ dp_choice[adj[v][k]][0]}}
         IN  IF below = {} THEN d
             ELSE CHOOSE m \in below : \A n \in below : n <= m

(***************************************************************************)
(* solve_mwis: the tables after the two passes, the vector it prints and   *)
(* the value it returns.                                                   *)
(***************************************************************************)
Vertices(adj) == DOMAIN adj

solve_tables(adj) ==
    [dp |-> [v \in Vertices(adj) |-> [k \in 0..1 |-> 0]],
     visited |-> [v \in Vertices(adj) |-> FALSE],
     log |-> <<>>]

solve_choice(adj) == [v \in Vertices(adj) |-> [k \in 0..1 |-> FALSE]]

\* solve_mwis with a second call of dp_solve, on the last vertex, whose
\* value is added to that of vertex 0 when the first call did not reach it
solve_mwis_two_roots(adj, weights) ==
    LET last == Cardinality(Vertices(adj)) - 1
        st0 == dp_solve(0, adj, weights, solve_tables(adj))
        st == dp_solve(last, adj, weights, st0)
        dp_choice == solve_choice(adj)
        bt == backtrack(0, adj, dp_choice, st.visited)
    IN  [dp |-> st.dp,
         dp_choice |-> dp_choice,
         visited |-> st.visited,
         log |-> st.log,
         mwis_vertices |-> bt.ret,
         calls |-> bt.calls,
         result |-> st.dp[0][0]
                    + (IF st0.visited[last] THEN 0 ELSE st.dp[last][0])]

\* lines 174-191
solve_mwis(adj, weights) ==
    LET st == dp_solve(0, adj, weights, solve_tables(adj))
        dp_choice == solve_choice(adj)
        bt == backtrack(0, adj, dp_choice, st.visited)
    IN  [dp |-> st.dp,
         dp_choice |-> dp_choice,
         visited |-> st.visited,
         log |-> st.log,
         mwis_vertices |-> bt.ret,
         calls |-> bt.calls,
         result |-> st.dp[0][0]]

(***************************************************************************)
(* The inputs the runs are started on: tree descriptions written in the    *)
(* grammar  node := '(' ('L' x y | 'P' a b node node | 'S' a b c node      *)
(* node) ')'  with a blank between tokens, the same with one tag replaced  *)
(* by a character that is no tag, and the empty description.               *)
(***************************************************************************)
RECURSIVE IntChars(_)
IntChars(n) ==
    IF n < 10 THEN <<DigitChars[n + 1]>>
    ELSE IntChars(n \div 10) \o <<DigitChars[(n % 10) + 1]>>

RECURSIVE WriteTree(_)
WriteTree(t) ==
    CASE t.tag = "L" ->
           <<"(", "L", " ">> \o IntChars(t.x) \o <<" ">> \o IntChars(t.y)
           \o <<")">>
      [] t.tag = "P" ->
           <<"(", "P", " ">> \o IntChars(t.a) \o <<" ">> \o IntChars(t.b)
           \o <<" ">> \o WriteTree(t.left) \o <<" ">> \o WriteTree(t.right)
           \o <<")">>
      [] t.tag = "S" ->
           <<"(", "S", " ">> \o IntChars(t.a) \o <<" ">> \o IntChars(t.b)
           \o <<" ">> \o IntChars(t.c)
           \o <<" ">> \o WriteTree(t.left) \o <<" ">> \o WriteTree(t.right)
           \o <<")">>

Leaves == {Leaf(x, y) : x \in Ids, y \in Ids}
\* the leaves of the three edges of a triangle
RingLeaves == {Leaf(0, 1), Leaf(1, 2), Leaf(2, 0)}

\* headers with one free id, in every position
ParallelHeaders == {<<0, h>> : h \in Ids} \cup {<<h, 0>> : h \in Ids}
SeriesHeaders ==
    {<<h, 0, 0>> : h \in Ids} \cup {<<0, h, 0>> : h \in Ids}
    \cup {<<0, 0, h>> : h \in Ids}

Compose(ph, sh, ls, rs) ==
    {Parallel(h[1], h[2], l, r) : h \in ph, l \in ls, r \in rs}
    \cup {Series(h[1], h[2], h[3], l, r) : h \in sh, l \in ls, r \in rs}

\* every header over two ring leaves
HeaderTrees == Compose(ParallelHeaders, SeriesHeaders, RingLeaves, RingLeaves)
\* the headers (P 0 1 ..) and (S 0 1 2 ..) over every pair of leaves of
\* which one is a ring leaf
PairTrees ==
    Compose({<<0, 1>>}, {<<0, 1, 2>>}, Leaves, RingLeaves)
    \cup Compose({<<0, 1>>}, {<<0, 1, 2>>}, RingLeaves, Leaves)
\* a nested composition on either side of a ring leaf
InnerTrees == Compose({<<0, 1>>}, {<<0, 1, 2>>}, RingLeaves, RingLeaves)
DeepTrees ==
    Compose({<<0, 1>>}, {<<0, 1, 2>>}, InnerTrees, RingLeaves)
    \cup Compose({<<0, 1>>}, {<<0, 1, 2>>}, RingLeaves, InnerTrees)

Trees == Leaves \cup HeaderTrees \cup PairTrees \cup DeepTrees

IsTag(ch) == ch \in {"L", "P", "S"}

\* text with the character at position p replaced by "X"
WithBadTag(text, p) == [text EXCEPT ![p] = "X"]

TagPositions(text) == {p \in DOMAIN text : IsTag(text[p])}

BadTagTexts ==
    UNION {{WithBadTag(WriteTree(t), p) : p \in TagPositions(WriteTree(t))} :
             t \in Leaves \cup InnerTrees}

TreeTexts == {WriteTree(t) : t \in Trees} \cup BadTagTexts \cup {<<>>}

\* a tag that is none of L, P, S follows an opening parenthesis
HasBadTag(text) ==
    \E p \in DOMAIN text :
        /\ text[p] = "("
        /\ LET q == SkipWs(text, p + 1) IN
           q <= Len(text) /\ ~IsTag(text[q])

\* the weight files of the properties of section 8 of the specification
ExampleWeights == {<<5, 3>>, <<1, 10, 1>>, <<2, 2>>}

RECURSIVE SeqsOf(_, _)
SeqsOf(S, n) ==
    IF n = 0 THEN {<<>>}
    ELSE {Append(s, x) : s \in SeqsOf(S, n - 1), x \in S}

\* the weight files offered to a run with n vertices: every file of n
\* weights, the examples of n weights, and the files that are too short
WeightFiles(n) ==
    SeqsOf(WeightVals, n)
    \cup {w \in ExampleWeights : Len(w) = n}
    \cup {[i \in 1..k |-> MaxWeight] : k \in 0..(n - 1)}

\* the indeterminate values tried for the uninitialised locals of read_tree
Garbage == [c : {"(", "?"}, i : {0 - 1, 0}]

(***************************************************************************)
(* main.                                                                   *)
(***************************************************************************)
VARIABLES
    pc,              \* the statement main is at
    treeFile,        \* the stream of the tree description
    weightsFile,     \* the integers of the weight file
    next_vertex,
    root,
    nice_tree_root,
    adj,
    weights,
    dp,              \* the tables of solve_mwis when it returns
    dp_choice,
    visited,
    mwis_vertices,
    result,
    out,             \* what was written to cout
    exit_code,
    \* the file-transfer server (src/server/main.go) and its clients
    conn,            \* the QUIC connection of the session: "up" or "down"
    accepting,       \* handleSession is in its loop
    sessionClosed,   \* session.CloseWithError has run
    stream,          \* per stream: both ends, the bytes in flight, the handler
    fs               \* the files of the server, by path

progVars == <<pc, treeFile, weightsFile, next_vertex, root, nice_tree_root,
              adj, weights, dp, dp_choice, visited, mwis_vertices, result,
              out, exit_code>>

srvVars == <<conn, accepting, sessionClosed, stream, fs>>

vars == <<progVars, srvVars>>

data == <<next_vertex, root, nice_tree_root, adj, weights, dp, dp_choice,
          visited, mwis_vertices, result>>

NoValue == "none"

Init ==
    /\ pc = "start"
    /\ treeFile \in {OpenStream(text) : text \in TreeTexts}
    /\ weightsFile = <<>>
    /\ next_vertex = 0
    /\ root = Null
    /\ nice_tree_root = Null
    /\ adj = <<>>
    /\ weights = <<>>
    /\ dp = <<>>
    /\ dp_choice = <<>>
    /\ visited = <<>>
    /\ mwis_vertices = <<>>
    /\ result = NoValue
    /\ out = <<>>
    /\ exit_code = NoValue
    /\ conn = "down"
    /\ accepting = FALSE
    /\ sessionClosed = TRUE
    /\ stream = <<>>
    /\ fs = <<>>

\* lines 194-209: too few arguments or a file that does not open
OpenFailure ==
    /\ pc = "start"
    /\ \E msg \in {"Usage", "Error opening tree file",
                   "Error opening weights file"} :
          out' = Append(out, [text |-> msg])
    /\ exit_code' = 0 - 1
    /\ pc' = "exit"
    /\ UNCHANGED <<treeFile, weightsFile, data>>
    /\ UNCHANGED srvVars

\* lines 211-212
Parse ==
    /\ pc = "start"
    /\ \E g \in Garbage :
          LET r == read_tree(treeFile, 0, g) IN
          /\ root' = r.node
          /\ next_vertex' = r.next_vertex
          /\ treeFile' = r.in
    /\ pc' = "parsed"
    /\ UNCHANGED <<weightsFile, nice_tree_root, adj, weights, dp, dp_choice,
                   visited, mwis_vertices, result, out, exit_code>>
    /\ UNCHANGED srvVars

\* line 214
Normalize ==
    /\ pc = "parsed"
    /\ nice_tree_root' = toNiceTree(root)
    /\ root' = nice_tree_root'
    /\ pc' = "normalized"
    /\ UNCHANGED <<treeFile, weightsFile, next_vertex, adj, weights, dp,
                   dp_choice, visited, mwis_vertices, result, out, exit_code>>
    /\ UNCHANGED srvVars

\* line 217 run on both pointers to the tree, root and nice_tree_root: the
\* second walk adds to the list the first one filled
Materialize_twice ==
    /\ pc = "normalized"
    /\ LET first == build_graph(root,
                                [v \in 0..(next_vertex - 1) |-> <<>>])
           b == build_graph(nice_tree_root, first.adj) IN
       /\ adj' = b.adj
       /\ IF first.ok /\ b.ok THEN pc' = "built"
          ELSE pc' \in {"crashed", "undefined"}
    /\ UNCHANGED <<treeFile, weightsFile, next_vertex, root, nice_tree_root,
                   weights, dp, dp_choice, visited, mwis_vertices, result,
                   out, exit_code>>
    /\ UNCHANGED srvVars

\* lines 216-217. A call through a null pointer or an index outside adj is
\* undefined behaviour: the run is killed by the fault ("crashed") or goes
\* on in a way the language does not define ("undefined").
Materialize ==
    /\ pc = "normalized"
    /\ LET b == build_graph(nice_tree_root,
                            [v \in 0..(next_vertex - 1) |-> <<>>]) IN
       /\ adj' = b.adj
       /\ IF b.ok THEN pc' = "built"
          ELSE pc' \in {"crashed", "undefined"}
    /\ UNCHANGED <<treeFile, weightsFile, next_vertex, root, nice_tree_root,
                   weights, dp, dp_choice, visited, mwis_vertices, result,
                   out, exit_code>>
    /\ UNCHANGED srvVars

\* lines 219-222: weights starts as next_vertex zeros; an extraction past
\* the end of the file fails and leaves the entry as it is
ReadWeights ==
    /\ pc = "built"
    /\ \E file \in WeightFiles(next_vertex) :
          /\ weightsFile' = file
          /\ weights' = [i \in 0..(next_vertex - 1) |->
                            IF i + 1 <= Len(file) THEN file[i + 1] ELSE 0]
    /\ pc' = "weighted"
    /\ UNCHANGED <<treeFile, next_vertex, root, nice_tree_root, adj, dp,
                   dp_choice, visited, mwis_vertices, result, out, exit_code>>
    /\ UNCHANGED srvVars

\* line 224: the call of solve_mwis, which prints the vertices
Solve ==
    /\ pc = "weighted"
    /\ LET s == solve_mwis(adj, weights) IN
       /\ dp' = s.dp
       /\ dp_choice' = s.dp_choice
       /\ visited' = s.visited
       /\ mwis_vertices' = s.mwis_vertices
       /\ result' = s.result
       /\ out' = Append(out, [text |-> "Vertices in the Maximum Weighted Independent Set",
                              vertices |-> s.mwis_vertices])
    /\ pc' = "solved"
    /\ UNCHANGED <<treeFile, weightsFile, next_vertex, root, nice_tree_root,
                   adj, weights, exit_code>>
    /\ UNCHANGED srvVars

\* lines 225-227
Report ==
    /\ pc = "solved"
    /\ out' = Append(out, [text |-> "Maximum Weighted Independent Set",
                           value |-> result])
    /\ exit_code' = 0
    /\ pc' = "exit"
    /\ UNCHANGED <<treeFile, weightsFile, data>>
    /\ UNCHANGED srvVars

Next ==
    \/ OpenFailure
    \/ Parse
    \/ Normalize
    \/ Materialize
    \/ ReadWeights
    \/ Solve
    \/ Report

Spec == Init /\ [][Next]_vars

(***************************************************************************)
(* Vocabulary of the properties.                                           *)
(***************************************************************************)
\* solve_mwis has returned
Solved == pc = "solved" \/ (pc = "exit" /\ exit_code = 0)

\* the weight file held a weight for every vertex
FullWeights == Len(weightsFile) = next_vertex

\* the description main was started on
Description == treeFile.buf

SelectedSet == Range(mwis_vertices)

SelectedWeight ==
    SumSeq([i \in DOMAIN mwis_vertices |-> weights[mwis_vertices[i]]])

Adjacent(g, u, v) == v \in Range(g[u])

\* the vertices a path of g leads to from the vertices of seen
RECURSIVE Reachable(_, _)
Reachable(g, seen) ==
    LET more == seen \cup {v \in DOMAIN g : \E u \in seen : Adjacent(g, u, v)}
    IN  IF more = seen THEN seen ELSE Reachable(g, more)

EdgeCount(g) == SumSeq([i \in 1..Cardinality(DOMAIN g) |-> Len(g[i - 1])]) \div 2

\* g is connected from vertex 0 and has no cycle: N vertices, N-1 edges
IsTrueTree(g) ==
    /\ Reachable(g, {0}) = DOMAIN g
    /\ EdgeCount(g) = Cardinality(DOMAIN g) - 1

IsIndependent(g, S) == \A u \in S, v \in S : ~Adjacent(g, u, v)

SetWeight(w, S) ==
    SumSeq([i \in 1..Cardinality(DOMAIN w) |-> IF (i - 1) \in S THEN w[i - 1] ELSE 0])

\* the maximum weight of an independent set of g, by enumeration
BestIndependentWeight(g, w) ==
    LET sums == {SetWeight(w, S) : S \in {T \in SUBSET DOMAIN g : IsIndependent(g, T)}}
    IN  CHOOSE m \in sums : \A k \in sums : k <= m

\* w with the weight of v increased by d
Raised(w, v, d) == [w EXCEPT ![v] = @ + d]

(***************************************************************************)
(* The properties.                                                         *)
(***************************************************************************)
\* C1: when solve_mwis has returned on a well-formed tree and a full weight
\* file, the weights of the vertices backtrack returned sum to the optimum
\* solve_mwis reports.
C1_SumIsOptimum == (Solved /\ FullWeights) => SelectedWeight = result

\* C2: when solve_mwis has returned, no vertex of the vector backtrack
\* returned is in the adjacency list of a vertex of that vector (a vertex
\* with a self-loop counts as adjacent to itself).
C2_Independent == Solved => IsIndependent(adj, SelectedSet)

\* C2 witness: backtrack has run on a graph with a parallel edge (a cycle)
C2_Witness ==
    /\ pc = "solved"
    /\ FullWeights
    /\ \E v \in DOMAIN adj : Len(adj[v]) >= 2 /\ adj[v][1] = adj[v][2]
    /\ IsIndependent(adj, SelectedSet)

\* C3: the optimum solve_mwis reports is max(excluded(0), included(0)).
C3_ResultIsMax == Solved => result = Max2(dp[0][0], dp[0][1])

\* C4: on a graph that is a tree connected from vertex 0, the optimum
\* solve_mwis reports is the maximum weight of an independent set.
C4_OptimalOnTrees ==
    (Solved /\ FullWeights /\ IsTrueTree(adj))
        => result = BestIndependentWeight(adj, weights)

\* C5: (L 0 1) with weights [5, 3] reports optimum 5 and the set {0}.
C5_BaseCase ==
    (Solved /\ Description = WriteTree(Leaf(0, 1)) /\ weightsFile = <<5, 3>>)
        => (result = 5 /\ mwis_vertices = <<0>>)

\* C6: (S 0 1 2 (L 0 1) (L 1 2)) with weights [1, 10, 1] reports optimum 10
\* and the set {1}.
C6_SeriesCase ==
    (/\ Solved
     /\ Description = WriteTree(Series(0, 1, 2, Leaf(0, 1), Leaf(1, 2)))
     /\ weightsFile = <<1, 10, 1>>)
        => (result = 10 /\ mwis_vertices = <<1>>)

\* C7: (P 0 1 (L 0 1) (L 0 1)) with weights [2, 2] reports optimum 2 and
\* the set {0}.
C7_ParallelCase ==
    (/\ Solved
     /\ Description = WriteTree(Parallel(0, 1, Leaf(0, 1), Leaf(0, 1)))
     /\ weightsFile = <<2, 2>>)
        => (result = 2 /\ mwis_vertices = <<0>>)

\* C8: when solve_mwis has returned, solving the same graph with the weight
\* of one vertex raised by 1..MaxDelta reports an optimum that is no
\* smaller.
C8_Monotone ==
    pc = "solved" =>
        \A v \in DOMAIN weights, d \in 1..MaxDelta :
            solve_mwis(adj, Raised(weights, v, d)).result >= result

\* C8 witness: a run whose optimum grows when a weight is raised, and stays
\* when another is
C8_Witness ==
    /\ pc = "solved"
    /\ \E v \in DOMAIN weights :
          solve_mwis(adj, Raised(weights, v, 1)).result > result
    /\ \E v \in DOMAIN weights :
          solve_mwis(adj, Raised(weights, v, 1)).result = result

\* C9: when solve_mwis has returned, every vertex without adjacency entries
\* has excluded = 0 and included = its weight.
C9_Isolated ==
    (Solved /\ FullWeights) =>
        \A v \in DOMAIN adj :
            adj[v] = <<>> => (dp[v][0] = 0 /\ dp[v][1] = weights[v])

\* C10: a description with a tag other than L, P, S after an opening
\* parenthesis never gets to normalization, materialization or solving,
\* never dereferences a missing node and produces no result.
C10_ParseErrorFatal ==
    HasBadTag(Description) =>
        /\ pc \notin {"normalized", "built", "weighted", "solved", "crashed",
                      "undefined"}
        /\ \A i \in DOMAIN out : DOMAIN out[i] = {"text"}

\* the weight file was read and held fewer weights than there are vertices
Underfilled == DOMAIN weights # {} /\ Len(weightsFile) < next_vertex

\* C11: a run whose weight file holds fewer weights than the graph has
\* vertices never gets solve_mwis to return and never ends as a normal run.
C11_ShortWeightsIsError == Underfilled => ~Solved

\* the description is one of the well-formed descriptions: it is not empty
\* and every opening parenthesis is followed by a tag
WellFormed == Description # <<>> /\ ~HasBadTag(Description)

\* the largest integer written in text from position p on, at least m
RECURSIVE MaxIntFrom(_, _, _)
MaxIntFrom(text, p, m) ==
    IF p > Len(text) THEN m
    ELSE IF IsDigit(text[p])
         THEN LET q == DigitsEnd(text, p) IN
              MaxIntFrom(text, q, Max2(m, DigitsValue(text, p, q, 0)))
         ELSE MaxIntFrom(text, p + 1, m)

\* the largest id of a tree, headers included
RECURSIVE MaxIdOf(_)
MaxIdOf(t) ==
    CASE t.tag = "L" -> Max2(t.x, t.y)
      [] t.tag = "P" ->
           Max2(Max2(t.a, t.b), Max2(MaxIdOf(t.left), MaxIdOf(t.right)))
      [] t.tag = "S" ->
           Max2(Max2(t.a, Max2(t.b, t.c)),
                Max2(MaxIdOf(t.left), MaxIdOf(t.right)))

Parsed == pc \in {"parsed", "normalized", "built", "weighted", "solved"}
              \/ (pc = "exit" /\ DOMAIN weights # {})

\* C12: after read_tree has parsed a well-formed description from a counter
\* of 0, next_vertex is 1 + the largest id written anywhere in it (leaf
\* endpoints and header ids at every depth), which is 1 + the largest id of
\* the parsed tree; materialization then indexes adj inside 0..N-1 (it never
\* ends in undefined behaviour) and adj and weights have N entries.
C12_VertexCount ==
    WellFormed =>
        /\ pc \in {"parsed", "normalized"}
              => /\ next_vertex = 1 + MaxIntFrom(Description, 1, 0)
                 /\ next_vertex = 1 + MaxIdOf(root)
        /\ pc \notin {"crashed", "undefined"}
        /\ pc \in {"built", "weighted", "solved"}
              => DOMAIN adj = 0..(next_vertex - 1)
        /\ pc \in {"weighted", "solved"}
              => DOMAIN weights = 0..(next_vertex - 1)

\* C12 witness: a nested tree whose largest id is written only in a header
\* has been materialized
C12_Witness ==
    /\ pc = "built"
    /\ root.tag = "S"
    /\ root.left.tag \in {"P", "S"}
    /\ next_vertex = 1 + root.c
    /\ \A v \in DOMAIN adj : root.c \notin Range(adj[v])

\* the leaves of a tree, left to right
RECURSIVE LeavesOf(_)
LeavesOf(t) ==
    CASE t.tag = "L" -> <<t>>
      [] t.tag \in {"P", "S"} -> LeavesOf(t.left) \o LeavesOf(t.right)
      [] OTHER -> <<>>

\* the number of times v is in the sequence s
Occurrences(s, v) == Cardinality({i \in DOMAIN s : s[i] = v})

\* the number of entries of an adjacency list
EntryCount(g) == SumSeq([i \in 1..Cardinality(DOMAIN g) |-> Len(g[i - 1])])

Built == pc \in {"built", "weighted", "solved"}
             \/ (pc = "exit" /\ DOMAIN weights # {})

\* C13: after a tree has been materialized into an empty adjacency list,
\* the list has two entries for every leaf of the tree and nothing else:
\* Leaf{x,y} is y in adj[x] and x in adj[y], once per leaf, so y occurs in
\* adj[x] as often as x in adj[y], and as often as the tree has leaves
\* between x and y (twice as often for x = y).
C13_LeafEdges ==
    Built =>
        LET ls == LeavesOf(nice_tree_root) IN
        /\ EntryCount(adj) = 2 * Len(ls)
        /\ \A x \in DOMAIN adj, y \in DOMAIN adj :
              /\ Occurrences(adj[x], y) = Occurrences(adj[y], x)
              /\ Occurrences(adj[x], y) =
                    Cardinality({i \in DOMAIN ls :
                                    \/ ls[i].x = x /\ ls[i].y = y
                                    \/ ls[i].x = y /\ ls[i].y = x})
                    * (IF x = y THEN 2 ELSE 1)

\* C13 witness: a tree of three leaves under two composition nodes, two of
\* them between the same vertices, has been materialized
C13_Witness ==
    /\ pc = "built"
    /\ Len(LeavesOf(nice_tree_root)) = 3
    /\ \E v \in DOMAIN adj : Len(adj[v]) >= 2 /\ adj[v][1] = adj[v][2]
    /\ EntryCount(adj) = 6

\* a fresh adjacency list of n empty vectors, as line 216 creates it
EmptyAdjacency(n) == [v \in 0..(n - 1) |-> <<>>]

C15_NiceTreeIdentity ==
    [][(pc = "parsed" /\ pc' = "normalized" /\ root # Null) =>
          /\ nice_tree_root' = root
          /\ root' = root
          /\ build_graph(nice_tree_root', EmptyAdjacency(next_vertex))
                = build_graph(root, EmptyAdjacency(next_vertex))]_vars

\* C15 witness: a tree with a series node below a parallel node and three
\* different leaves has been normalized
C15_Witness ==
    /\ pc = "normalized"
    /\ nice_tree_root.tag = "P"
    /\ nice_tree_root.left.tag = "S"
    /\ nice_tree_root.left.left # nice_tree_root.left.right
    /\ nice_tree_root.left.left # nice_tree_root.right
    /\ nice_tree_root = root

\* C16: a run on the empty description has a graph of one vertex once it is
\* parsed, reports the optimum 0, and never ends in undefined behaviour.
C16_EmptyTree ==
    Description = <<>> =>
        /\ Parsed => next_vertex = 1
        /\ Built => DOMAIN adj = {0}
        /\ Solved => result = 0
        /\ pc \notin {"crashed", "undefined"}

(***************************************************************************)
(* The rooted traversal: the depth-first walk from a vertex that enters a  *)
(* vertex when it is first met. seen is the set of entered vertices and    *)
(* kids[v] lists the neighbours of v that were not yet entered when the    *)
(* walk over adj[v] reached them, in that order.                           *)
(***************************************************************************)
RECURSIVE Walk(_, _, _), WalkLoop(_, _, _, _)
WalkLoop(v, i, g, st) ==
    IF i > Len(g[v]) THEN st
    ELSE LET u == g[v][i] IN
         IF u \in st.seen THEN WalkLoop(v, i + 1, g, st)
         ELSE WalkLoop(v, i + 1, g,
                       [Walk(u, g, st) EXCEPT !.kids[v] = Append(@, u)])

Walk(v, g, st) ==
    IF v \in st.seen THEN st
    ELSE WalkLoop(v, 1, g, [st EXCEPT !.seen = @ \cup {v}])

RootedTraversal(g) ==
    Walk(0, g, [seen |-> {}, kids |-> [v \in DOMAIN g |-> <<>>]])

\* C17: when solve_mwis has returned, the visited vertices are those of the
\* rooted traversal from vertex 0, and for each of them excluded is the sum
\* of max(included, excluded) over its children in that traversal and
\* included is its weight plus the sum of excluded over them.
C17_Recurrence ==
    Solved =>
        LET t == RootedTraversal(adj) IN
        \A v \in DOMAIN adj :
            /\ visited[v] <=> v \in t.seen
            /\ visited[v] =>
                 /\ dp[v][0] =
                      SumSeq([i \in DOMAIN t.kids[v] |->
                                Max2(dp[t.kids[v][i]][1], dp[t.kids[v][i]][0])])
                 /\ dp[v][1] =
                      weights[v]
                      + SumSeq([i \in DOMAIN t.kids[v] |-> dp[t.kids[v][i]][0]])

\* C17 witness: a triangle, where the root has one child and one neighbour
\* that is no child, solved with values that tell the two sums apart
C17_Witness ==
    /\ pc = "solved"
    /\ \A v \in DOMAIN adj : Len(adj[v]) = 2 /\ visited[v]
    /\ Cardinality(DOMAIN adj) = 3
    /\ Len(RootedTraversal(adj).kids[0]) = 1
    /\ dp[0][0] # dp[0][1] - weights[0]
    /\ dp[0][0] > 0

\* the history of the DP pass of the run
DpLog == solve_mwis(adj, weights).log

\* the positions of the events op on v in log
EventsAt(log, op, v) == {k \in DOMAIN log : log[k].op = op /\ log[k].v = v}

\* C18: in the DP pass of a solved run every vertex is entered at most once
\* and exactly the visited ones are; every entered vertex returns, once and
\* after its entry; a contribution of u to v is taken right after the
\* return of u, inside the call of v (after its entry, before its return),
\* and nothing happens at u afterwards; the pass ends after at most N
\* entries.
C18_EnteredOnce ==
    pc = "solved" =>
        LET log == DpLog
            enters == {k \in DOMAIN log : log[k].op = "enter"}
        IN
        /\ Cardinality(enters) <= Cardinality(DOMAIN adj)
        /\ \A v \in DOMAIN adj :
              /\ Cardinality(EventsAt(log, "enter", v)) <= 1
              /\ Cardinality(EventsAt(log, "enter", v))
                    = (IF visited[v] THEN 1 ELSE 0)
              /\ Cardinality(EventsAt(log, "return", v))
                    = Cardinality(EventsAt(log, "enter", v))
              /\ \A e \in EventsAt(log, "enter", v),
                    r \in EventsAt(log, "return", v) : e < r
        /\ \A k \in DOMAIN log :
              log[k].op = "add" =>
                 /\ k > 1
                 /\ log[k - 1] = Event("return", log[k].u, log[k].u)
                 /\ \A j \in DOMAIN log :
                       (j > k) => (log[j].v # log[k].u /\ log[j].u # log[k].u)
                 /\ \E e \in EventsAt(log, "enter", log[k].v),
                       r \in EventsAt(log, "return", log[k].v) : e < k /\ k < r

\* C18 witness: the pass over a connected graph of three vertices with a
\* cycle (a triangle, a parallel edge or a self-loop): three entries, two
\* contributions
C18_Witness ==
    /\ pc = "solved"
    /\ Cardinality(DOMAIN adj) = 3
    /\ Cardinality(Reachable(adj, {0})) = 3
    /\ EdgeCount(adj) >= 3
    /\ Cardinality({k \in DOMAIN DpLog : DpLog[k].op = "enter"}) = 3
    /\ Cardinality({k \in DOMAIN DpLog : DpLog[k].op = "add"}) = 2

\* C19: when solve_mwis has returned, the recorded choice of every visited
\* vertex is include (dp_choice[v][1]) exactly when its included value is
\* strictly larger than its excluded value.
C19_ChoiceRecorded ==
    Solved =>
        \A v \in DOMAIN adj :
            visited[v] => (dp_choice[v][1] <=> dp[v][1] > dp[v][0])

\* the vertices backtrack was called on in the run
BacktrackCalls == Range(backtrack(0, adj, dp_choice, visited).calls)

\* C20: when solve_mwis has returned, every vertex backtrack was called on
\* whose choice is include (included strictly larger than excluded) is in
\* the sequence returned to solve_mwis; the root is one of them.
C20_EmitsIncluded ==
    Solved =>
        /\ 0 \in BacktrackCalls
        /\ \A v \in BacktrackCalls :
              dp[v][1] > dp[v][0] => v \in Range(mwis_vertices)

\* the tree the traversal from vertex 0 follows: every vertex it reaches
\* keeps its children and the vertex it was reached from, and nothing else
ParentOf(kids, v) == {p \in DOMAIN kids : v \in Range(kids[p])}

SetToSeq(S) ==
    IF S = {} THEN <<>> ELSE <<CHOOSE x \in S : TRUE>>

SpanningTree(g) ==
    LET t == RootedTraversal(g) IN
    [v \in DOMAIN g |-> t.kids[v] \o SetToSeq(ParentOf(t.kids, v))]

\* C21: when solve_mwis has returned on the materialized graph, its DP
\* tables, its visited marks and the optimum it reports are those solve_mwis
\* computes on the spanning tree of the graph that the traversal from vertex
\* 0 follows, the graph without its other edges.
C21_TreeEdgesOnly ==
    pc = "solved" =>
        LET s == solve_mwis(SpanningTree(adj), weights) IN
        /\ s.dp = dp
        /\ s.visited = visited
        /\ s.result = result

\* C21 witness: a solved run on a graph with more edges than its spanning
\* tree, where the root has a neighbour that is no child and the tables are
\* not all zero
C21_Witness ==
    /\ pc = "solved"
    /\ EdgeCount(adj) > EdgeCount(SpanningTree(adj))
    /\ Len(adj[0]) > Len(RootedTraversal(adj).kids[0])
    /\ dp[0][0] > 0
    /\ dp[0][1] > 0

\* C22: parsing the text WriteTree writes for a tree gives that tree back
\* (variant, ids, left child then right child at every depth), without a
\* failed extraction and with the stream just after the closing parenthesis
\* of the node, which for the outermost node is the end of the text.
C22_RoundTrip ==
    pc = "parsed" =>
        \A t \in Trees :
            Description = WriteTree(t) =>
                /\ root = t
                /\ ~treeFile.fail
                /\ treeFile.pos = Len(Description) + 1
                /\ Description[treeFile.pos - 1] = ")"

\* C22 witness: a parsed tree of depth three, where the right sibling of an
\* inner node was read after the closing parenthesis of that node
C22_Witness ==
    /\ pc = "parsed"
    /\ Description \in {WriteTree(t) : t \in DeepTrees}
    /\ root.tag \in {"P", "S"}
    /\ root.left.tag \in {"P", "S"}
    /\ root.right.tag = "L"
    /\ WriteTree(root) = Description

\* C23: when solve_mwis has returned, also on negative weights, the
\* excluded value of every visited vertex is not negative, so neither is
\* the larger of its two values; a child whose included value is negative
\* counts with its excluded value in the excluded value of its parent, and
\* the included value is the weight plus the excluded values of the
\* children.
C23_NegativeWeights ==
    Solved =>
        LET t == RootedTraversal(adj) IN
        \A v \in DOMAIN adj :
            visited[v] =>
                /\ dp[v][0] >= 0
                /\ Max2(dp[v][0], dp[v][1]) >= 0
                /\ dp[v][0] =
                     SumSeq([i \in DOMAIN t.kids[v] |->
                               IF dp[t.kids[v][i]][1] < 0
                               THEN dp[t.kids[v][i]][0]
                               ELSE Max2(dp[t.kids[v][i]][0],
                                         dp[t.kids[v][i]][1])])
                /\ dp[v][1] - weights[v] =
                     SumSeq([i \in DOMAIN t.kids[v] |-> dp[t.kids[v][i]][0]])

\* C23 witness: a solved run where a child of the root has a negative
\* weight and a negative included value, and the root a negative weight
C23_Witness ==
    /\ pc = "solved"
    /\ weights[0] < 0
    /\ \E i \in DOMAIN RootedTraversal(adj).kids[0] :
          LET u == RootedTraversal(adj).kids[0][i] IN
          weights[u] < 0 /\ dp[u][1] < 0 /\ visited[u]

\* C29: when solve_mwis has returned, the call backtrack(0, ...) it made on
\* the adjacency list, the choice table and the visited marks of the run
\* ended: its calls nest less than MaxDepth deep, and no call was made
\* from a vertex back to a vertex whose call was still running.
C29_BacktrackEnds ==
    Solved =>
        /\ backtrack_depth(0, adj, dp_choice, visited, 1) <= MaxDepth
        /\ dp_choice = solve_choice(adj)
        /\ backtrack_depth(0, adj, solve_choice(adj), visited, 1)
              <= Cardinality(DOMAIN adj)

\* C29 witness: a solved run on a graph where vertex 0 lies on a cycle
\* with a visited neighbour (a parallel edge, a triangle or a self-loop)
C29_Witness ==
    /\ pc = "solved"
    /\ \E u \in Range(adj[0]) : visited[u] /\ Adjacent(adj, u, 0)
    /\ EdgeCount(adj) >= Cardinality(DOMAIN adj)
    /\ backtrack_depth(0, adj, dp_choice, visited, 1) = 1

\* the weight vectors over the weights of the model that agree with w on
\* the vertices of keep
AgreeingWeights(w, keep) ==
    {[v \in DOMAIN w |-> IF v \in keep THEN w[v] ELSE free[v]] :
        free \in [DOMAIN w \ keep -> WeightVals]}

\* C30: when solve_mwis has returned, every weight vector that agrees with
\* the weights of the run on the vertices reachable from vertex 0 gives the
\* same optimum and the same returned vertices; a vertex that is not
\* reachable from vertex 0 is not visited and not returned.
C30_ComponentOnly ==
    pc = "solved" =>
        LET comp == Reachable(adj, {0}) IN
        /\ \A w2 \in AgreeingWeights(weights, comp) :
              LET s == solve_mwis(adj, w2) IN
              /\ s.result = result
              /\ s.mwis_vertices = mwis_vertices
        /\ \A v \in DOMAIN adj \ comp :
              ~visited[v] /\ v \notin SelectedSet

\* C30 witness: a solved run on a graph with an edge in the component of
\* vertex 0 and an edge outside it, and another weight for a vertex outside
C30_Witness ==
    /\ pc = "solved"
    /\ Cardinality(Reachable(adj, {0})) >= 2
    /\ \E v \in DOMAIN adj \ Reachable(adj, {0}) : adj[v] # <<>>
    /\ Cardinality(AgreeingWeights(weights, Reachable(adj, {0}))) > 1
    /\ result > 0

(***************************************************************************)
(* The file-transfer server (src/server/main.go, lines 1-294) and its      *)
(* client (src/unnamed/part_000, lines 267-466). Bytes are one-character   *)
(* strings; a text is a sequence of them.                                  *)
(***************************************************************************)
MaxStreams == 2

Streams == 1..MaxStreams

Min2(a, b) == IF a < b THEN a ELSE b

NewLine == "\n"

\* strings.HasPrefix
HasPrefix(s, prefix) ==
    /\ Len(s) >= Len(prefix)
    /\ SubSeq(s, 1, Len(prefix)) = prefix

\* the first position of ch in s from p on, Len(s) + 1 when there is none
RECURSIVE IndexFrom(_, _, _)
IndexFrom(s, ch, p) ==
    IF p > Len(s) \/ s[p] = ch THEN p ELSE IndexFrom(s, ch, p + 1)

\* strings.Split on a one-byte separator: the parts between the separators
RECURSIVE Split(_, _)
Split(s, sep) ==
    LET k == IndexFrom(s, sep, 1) IN
    IF k > Len(s) THEN <<s>>
    ELSE <<SubSeq(s, 1, k - 1)>> \o Split(SubSeq(s, k + 1, Len(s)), sep)

IsSpace(ch) == ch \in {" ", "\n", "\t", "\r"}

\* strings.TrimSpace: white space is cut from both ends
RECURSIVE TrimSpace(_)
TrimSpace(s) ==
    IF s = <<>> THEN s
    ELSE IF IsSpace(s[1]) THEN TrimSpace(Tail(s))
    ELSE IF IsSpace(s[Len(s)]) THEN TrimSpace(SubSeq(s, 1, Len(s) - 1))
    ELSE s

\* the value of a text of decimal digits
RECURSIVE DecimalValue(_)
DecimalValue(s) ==
    IF s = <<>> THEN 0
    ELSE 10 * DecimalValue(SubSeq(s, 1, Len(s) - 1)) + DigitVal(s[Len(s)])

\* strconv.ParseInt(s, 10, 64): an optional sign, then one digit or more
ParseInt(s) ==
    LET signed == s # <<>> /\ s[1] \in {"+", "-"}
        digits == IF signed THEN Tail(s) ELSE s
    IN  IF digits = <<>> \/ \E i \in DOMAIN digits : ~IsDigit(digits[i])
        THEN [ok |-> FALSE, val |-> 0]
        ELSE [ok |-> TRUE,
              val |-> IF signed /\ s[1] = "-" THEN 0 - DecimalValue(digits)
                      ELSE DecimalValue(digits)]

\* fmt.Sprintf("%d", n)
FormatInt(n) == IF n < 0 THEN <<"-">> \o IntChars(0 - n) ELSE IntChars(n)

\* fmt.Sscanf(text, "SIZE:%d", &fileSize) of the client: the five bytes of
\* the format, then an integer
ScanSize(text) ==
    LET lit == <<"S", "I", "Z", "E", ":">> IN
    IF ~HasPrefix(text, lit) THEN [ok |-> FALSE, val |-> 0]
    ELSE LET rest == SubSeq(text, Len(lit) + 1, Len(text))
             signed == rest # <<>> /\ rest[1] \in {"+", "-"}
             from == IF signed THEN 2 ELSE 1
             to == DigitsEnd(rest, from)
         IN  IF to = from THEN [ok |-> FALSE, val |-> 0]
             ELSE ParseInt(SubSeq(rest, 1, to - 1))

\* the texts of the program
UploadPrefix == <<"U", "P", "L", "O", "A", "D", "|">>
DownloadPrefix == <<"D", "O", "W", "N", "L", "O", "A", "D", " ">>
ErrorPrefix == <<"E", "r", "r", "o", "r", ":", " ">>
UnknownCommand ==
    <<"U", "n", "k", "n", "o", "w", "n", " ", "c", "o", "m", "m", "a", "n", "d">>
InvalidUploadCommand ==
    <<"I", "n", "v", "a", "l", "i", "d", " ", "u", "p", "l", "o", "a", "d", " ",
      "c", "o", "m", "m", "a", "n", "d", ":", " ">>
InvalidFileSize ==
    <<"I", "n", "v", "a", "l", "i", "d", " ", "f", "i", "l", "e", " ",
      "s", "i", "z", "e", " ", "i", "n", " ", "c", "o", "m", "m", "a", "n", "d",
      ":", " ">>
ErrorHandlingUpload ==
    <<"E", "r", "r", "o", "r", " ", "h", "a", "n", "d", "l", "i", "n", "g", " ",
      "u", "p", "l", "o", "a", "d", ":", " ">>
FailedToCreate ==
    <<"F", "a", "i", "l", "e", "d", " ", "t", "o", " ", "c", "r", "e", "a", "t",
      "e", " ", "f", "i", "l", "e", " ">>
ErrorReading ==
    <<"E", "r", "r", "o", "r", " ", "r", "e", "a", "d", "i", "n", "g", " ",
      "f", "r", "o", "m", " ", "s", "t", "r", "e", "a", "m">>

\* line 96: fmt.Sprintf("Error: %v\n", err)
ErrorLine(err) == ErrorPrefix \o err \o <<NewLine>>

\* part_000 line 350: fmt.Sprintf("UPLOAD|%s|%d\n", remotePath, fileSize)
UploadCommand(remotePath, fileSize) ==
    UploadPrefix \o remotePath \o <<"|">> \o FormatInt(fileSize) \o <<NewLine>>

\* part_000 line 404: fmt.Sprintf("DOWNLOAD %s\n", remotePath)
DownloadCommand(remotePath) == DownloadPrefix \o remotePath \o <<NewLine>>

\* the sizes of the read buffers
UploadBufferSize == 8192
ClientBufferSize == 4096

\* a file of the server: os.Create makes it empty, a Write through a handle
\* puts the bytes at the offset of the handle, after zero bytes when the
\* file is shorter than the offset
NoFile == [exists |-> FALSE, data |-> <<>>]
EmptyFile == [exists |-> TRUE, data |-> <<>>]
ZeroByte == "\\0"

WriteAt(content, off, bytes) ==
    [i \in 1..Max2(Len(content), off + Len(bytes)) |->
        IF i > off /\ i <= off + Len(bytes) THEN bytes[i - off]
        ELSE IF i <= Len(content) THEN content[i]
        ELSE ZeroByte]

\* the paths and files of the runs
RemotePaths == {<<"a">>, <<"b">>}
LocalFiles == {<<"p", "q">>, <<"r">>}
StoredFile == <<"d">>

\* what a peer that is not the client of this repository does on a stream:
\* the text it writes and whether it then closes the stream ("fin"), resets
\* it ("reset") or leaves it open ("open"). Commands the server rejects, a
\* line without its end, an upload that breaks off, an upload that declares
\* another size than it sends.
PeerScript(text, end) == [text |-> text, end |-> end]

PeerScripts ==
    {PeerScript(<<"l", "s", NewLine>>, "open"),
     PeerScript(UploadPrefix \o <<"a", NewLine>>, "fin"),
     PeerScript(UploadPrefix \o <<"a", "|", "x", NewLine>>, "fin"),
     PeerScript(UploadPrefix \o <<"a", "|", "0", NewLine>>, "fin"),
     PeerScript(UploadPrefix \o <<"|", "1", NewLine, "p">>, "fin"),
     PeerScript(UploadPrefix \o <<"a", "|", "2">>, "fin"),
     PeerScript(UploadPrefix \o <<"a", "|", "2", NewLine, "p">>, "reset"),
     PeerScript(UploadPrefix \o <<"a", "|", "2", NewLine, "p">>, "fin")}

\* a stream nobody has opened
NoStream ==
    [client |-> "unused", sent |-> <<>>, wire |-> <<>>, end |-> "open",
     hpc |-> "none", reader |-> <<>>, command |-> <<>>, path |-> <<>>,
     fileSize |-> 0, received |-> 0, created |-> FALSE, back |-> <<>>,
     closed |-> FALSE, result |-> "none", local |-> <<>>]

\* main, lines 28-55, after a session was accepted: handleSession runs
ServerInit ==
    /\ pc = "absent"
    /\ treeFile = OpenStream(<<>>)
    /\ weightsFile = <<>>
    /\ next_vertex = 0
    /\ root = Null
    /\ nice_tree_root = Null
    /\ adj = <<>>
    /\ weights = <<>>
    /\ dp = <<>>
    /\ dp_choice = <<>>
    /\ visited = <<>>
    /\ mwis_vertices = <<>>
    /\ result = NoValue
    /\ out = <<>>
    /\ exit_code = NoValue
    /\ conn = "up"
    /\ accepting = TRUE
    /\ sessionClosed = FALSE
    /\ stream = [s \in Streams |-> NoStream]
    /\ fs = [p \in RemotePaths \cup {<<>>} |->
                IF p = <<"a">> THEN [exists |-> TRUE, data |-> StoredFile]
                ELSE NoFile]

\* part_000 lines 323-391: uploadFile writes the command, then the file,
\* and closes the stream when it returns
uploadFile(s, localFile, remotePath) ==
    /\ conn = "up"
    /\ stream[s].client = "unused"
    /\ LET text == UploadCommand(remotePath, Len(localFile)) \o localFile IN
       stream' = [stream EXCEPT ![s].client = "sent",
                                ![s].sent = text,
                                ![s].wire = text,
                                ![s].end = "fin"]
    /\ UNCHANGED <<progVars, conn, accepting, sessionClosed, fs>>

\* another peer writes its text on a stream and closes it, resets it or
\* leaves it open
PeerSend(s, script) ==
    /\ conn = "up"
    /\ stream[s].client = "unused"
    /\ stream' = [stream EXCEPT ![s].client = "sent",
                                ![s].sent = script.text,
                                ![s].wire = script.text,
                                ![s].end = script.end]
    /\ UNCHANGED <<progVars, conn, accepting, sessionClosed, fs>>

\* part_000 lines 397-404: downloadFile opens a stream and sends its command
downloadFile_Send(s, remotePath) ==
    /\ conn = "up"
    /\ stream[s].client = "unused"
    /\ LET text == DownloadCommand(remotePath) IN
       stream' = [stream EXCEPT ![s].client = "header",
                                ![s].sent = text,
                                ![s].wire = text]
    /\ UNCHANGED <<progVars, conn, accepting, sessionClosed, fs>>

\* part_000 lines 408-418 and 439-457: one stream.Read of downloadFile. The
\* first one must hold the header; the later ones are written to the local
\* file until the stream ends. Every return closes the stream (line 401),
\* and what the server wrote and the client did not read is dropped.
downloadFile_Read(s) ==
    /\ stream[s].client \in {"header", "data"}
    /\ \/ /\ stream[s].back # <<>>
          /\ \E n \in 1..Min2(Len(stream[s].back), ClientBufferSize) :
                LET chunk == SubSeq(stream[s].back, 1, n)
                    rest == SubSeq(stream[s].back, n + 1, Len(stream[s].back))
                IN  IF stream[s].client = "header"
                    THEN IF ScanSize(chunk).ok
                         THEN stream' = [stream EXCEPT ![s].client = "data",
                                                       ![s].back = rest]
                         ELSE stream' = [stream EXCEPT ![s].client = "failed",
                                                       ![s].back = <<>>,
                                                       ![s].end = "fin"]
                    ELSE stream' = [stream EXCEPT ![s].local = @ \o chunk,
                                                  ![s].back = rest]
       \/ /\ stream[s].back = <<>>
          /\ stream[s].closed \/ conn = "down"
          /\ IF stream[s].client = "data" /\ stream[s].closed
             THEN stream' = [stream EXCEPT ![s].client = "completed",
                                           ![s].end = "fin"]
             ELSE stream' = [stream EXCEPT ![s].client = "failed",
                                           ![s].end = "fin"]
    /\ UNCHANGED <<progVars, conn, accepting, sessionClosed, fs>>

\* part_000 line 291, or the loss of the connection
ClientClose ==
    /\ conn = "up"
    /\ conn' = "down"
    /\ UNCHANGED <<progVars, accepting, sessionClosed, stream, fs>>

\* lines 63 and 73: AcceptStream returns a stream the peer has opened and
\* handleStream is started on it
AcceptStream(s) ==
    /\ accepting
    /\ conn = "up"
    /\ stream[s].client # "unused"
    /\ stream[s].hpc = "none"
    /\ stream' = [stream EXCEPT ![s].hpc = "readline"]
    /\ UNCHANGED <<progVars, conn, accepting, sessionClosed, fs>>

\* lines 64-72 and 60: AcceptStream fails, handleSession returns and its
\* deferred call closes the session
AcceptFail ==
    /\ accepting
    /\ conn = "down"
    /\ accepting' = FALSE
    /\ sessionClosed' = TRUE
    /\ UNCHANGED <<progVars, conn, stream, fs>>

\* a Read of the stream by the server fails: the peer reset the stream or
\* the connection is gone
ReadFails(s) == stream[s].end = "reset" \/ conn = "down"

\* a Read of the stream by the server returns io.EOF
ReadEnds(s) == stream[s].wire = <<>> /\ stream[s].end = "fin"

\* handleStream returns: the deferred stream.Close of line 78
Returned(st, outcome, reply) ==
    [st EXCEPT !.hpc = "done", !.closed = TRUE, !.result = outcome,
               !.back = @ \o reply]

\* lines 80-91: reader.ReadString('\n'), one Read of the stream at a time.
\* The Read fills the buffer of the reader with what the stream delivers;
\* the line ends at the first newline in the buffer and the bytes after it
\* stay in the buffer of the reader.
ReadString(s) ==
    /\ stream[s].hpc = "readline"
    /\ \/ /\ stream[s].wire # <<>>
          /\ \E n \in 1..Len(stream[s].wire) :
                LET buf == stream[s].reader \o SubSeq(stream[s].wire, 1, n)
                    rest == SubSeq(stream[s].wire, n + 1, Len(stream[s].wire))
                    k == IndexFrom(buf, NewLine, 1)
                IN  IF k <= Len(buf)
                    THEN stream' =
                           [stream EXCEPT
                              ![s].wire = rest,
                              ![s].command = TrimSpace(SubSeq(buf, 1, k)),
                              ![s].reader = SubSeq(buf, k + 1, Len(buf)),
                              ![s].hpc = "process"]
                    ELSE stream' = [stream EXCEPT ![s].wire = rest,
                                                  ![s].reader = buf]
       \/ /\ ReadEnds(s) \/ ReadFails(s)
          /\ stream' = [stream EXCEPT ![s] = Returned(@, "unreadable", <<>>)]
    /\ UNCHANGED <<progVars, conn, accepting, sessionClosed, fs>>

\* lines 104-117: what processCommand makes of the command. Only an upload
\* is a command: nothing calls handleDownload (lines 185-222).
ParseCommand(command) ==
    IF ~HasPrefix(command, UploadPrefix)
    THEN [kind |-> "unknown", err |-> UnknownCommand \o <<":", " ">> \o command]
    ELSE LET parts == Split(command, "|") IN
         IF Len(parts) # 3
         THEN [kind |-> "invalid", err |-> InvalidUploadCommand \o command]
         ELSE LET fileSize == ParseInt(parts[3]) IN
              IF ~fileSize.ok \/ fileSize.val <= 0
              THEN [kind |-> "invalid", err |-> InvalidFileSize \o parts[3]]
              ELSE [kind |-> "upload", remoteFilePath |-> parts[2],
                    fileSize |-> fileSize.val]

\* os.Create fails on the empty path
CreateFails(path) == path = <<>>

\* lines 94-97 and 102-132 with a failure that ends the program: the session
\* goes down with the stream
processCommand_fatal(s) ==
    /\ stream[s].hpc = "process"
    /\ LET c == ParseCommand(stream[s].command) IN
       IF c.kind = "unknown"
       THEN /\ stream' = [stream EXCEPT ![s] =
                            Returned(@, "unknown",
                                     ErrorLine(UnknownCommand) \o ErrorLine(c.err))]
            /\ accepting' = FALSE
            /\ sessionClosed' = TRUE
            /\ UNCHANGED fs
       ELSE IF c.kind = "invalid"
       THEN /\ stream' = [stream EXCEPT ![s] =
                            Returned(@, "rejected", ErrorLine(c.err))]
            /\ accepting' = FALSE
            /\ sessionClosed' = TRUE
            /\ UNCHANGED fs
       ELSE IF CreateFails(c.remoteFilePath)
       THEN /\ stream' = [stream EXCEPT ![s] =
                            Returned([@ EXCEPT !.path = c.remoteFilePath,
                                               !.fileSize = c.fileSize],
                                     "create_failed",
                                     ErrorLine(ErrorHandlingUpload \o FailedToCreate))]
            /\ accepting' = FALSE
            /\ sessionClosed' = TRUE
            /\ UNCHANGED fs
       ELSE /\ stream' = [stream EXCEPT ![s].path = c.remoteFilePath,
                                        ![s].fileSize = c.fileSize,
                                        ![s].created = TRUE,
                                        ![s].hpc = "upload"]
            /\ fs' = [fs EXCEPT ![c.remoteFilePath] = EmptyFile]
            /\ UNCHANGED <<accepting, sessionClosed>>
    /\ UNCHANGED <<progVars, conn>>

\* lines 94-97 with processCommand, lines 102-132, up to the os.Create of
\* handleUpload, lines 136-146. A command that is no upload gets the two
\* error lines of lines 128 and 96, an invalid one the line of line 96, and
\* handleStream returns; an upload creates the file, empty.
processCommand(s) ==
    /\ stream[s].hpc = "process"
    /\ LET c == ParseCommand(stream[s].command) IN
       IF c.kind = "unknown"
       THEN /\ stream' = [stream EXCEPT ![s] =
                            Returned(@, "unknown",
                                     ErrorLine(UnknownCommand) \o ErrorLine(c.err))]
            /\ UNCHANGED fs
       ELSE IF c.kind = "invalid"
       THEN /\ stream' = [stream EXCEPT ![s] =
                            Returned(@, "rejected", ErrorLine(c.err))]
            /\ UNCHANGED fs
       ELSE IF CreateFails(c.remoteFilePath)
       THEN /\ stream' = [stream EXCEPT ![s] =
                            Returned([@ EXCEPT !.path = c.remoteFilePath,
                                               !.fileSize = c.fileSize],
                                     "create_failed",
                                     ErrorLine(ErrorHandlingUpload \o FailedToCreate))]
            /\ UNCHANGED fs
       ELSE /\ stream' = [stream EXCEPT ![s].path = c.remoteFilePath,
                                        ![s].fileSize = c.fileSize,
                                        ![s].created = TRUE,
                                        ![s].hpc = "upload"]
            /\ fs' = [fs EXCEPT ![c.remoteFilePath] = EmptyFile]
    /\ UNCHANGED <<progVars, conn, accepting, sessionClosed>>

\* lines 154-171: one turn of the loop of handleUpload. stream.Read takes
\* what the stream delivers, at most a buffer of it, and file.Write puts it
\* after what this handler wrote before; io.EOF ends the upload, another
\* error is returned and answered by line 96.
handleUpload_Read(s) ==
    /\ stream[s].hpc = "upload"
    /\ \/ /\ stream[s].wire # <<>>
          /\ \E n \in 1..Min2(Len(stream[s].wire), UploadBufferSize) :
                /\ fs' = [fs EXCEPT ![stream[s].path].data =
                             WriteAt(@, stream[s].received,
                                     SubSeq(stream[s].wire, 1, n))]
                /\ stream' = [stream EXCEPT
                                ![s].wire = SubSeq(@, n + 1, Len(@)),
                                ![s].received = @ + n]
       \/ /\ ReadEnds(s)
          /\ stream' = [stream EXCEPT ![s] = Returned(@, "uploaded", <<>>)]
          /\ UNCHANGED fs
       \/ /\ ReadFails(s)
          /\ stream' = [stream EXCEPT ![s] =
                          Returned(@, "upload_error",
                                   ErrorLine(ErrorHandlingUpload \o ErrorReading))]
          /\ UNCHANGED fs
    /\ UNCHANGED <<progVars, conn, accepting, sessionClosed>>

ServerNext ==
    \/ \E s \in Streams, localFile \in LocalFiles, remotePath \in RemotePaths :
          uploadFile(s, localFile, remotePath)
    \/ \E s \in Streams, remotePath \in RemotePaths :
          downloadFile_Send(s, remotePath)
    \/ \E s \in Streams, script \in PeerScripts : PeerSend(s, script)
    \/ \E s \in Streams : downloadFile_Read(s)
    \/ ClientClose
    \/ \E s \in Streams : AcceptStream(s)
    \/ AcceptFail
    \/ \E s \in Streams : ReadString(s)
    \/ \E s \in Streams : processCommand(s)
    \/ \E s \in Streams : handleUpload_Read(s)

ServerSpec == ServerInit /\ [][ServerNext]_vars

\* the sessions in which the client only downloads
DownloadNext ==
    \/ \E s \in Streams, remotePath \in RemotePaths :
          downloadFile_Send(s, remotePath)
    \/ \E s \in Streams : downloadFile_Read(s)
    \/ ClientClose
    \/ \E s \in Streams : AcceptStream(s)
    \/ AcceptFail
    \/ \E s \in Streams : ReadString(s)
    \/ \E s \in Streams : processCommand(s)

\* the steps of the goroutines of the server and of a downloadFile that
\* waits in a Read: the scheduler runs them, so one of them is taken as long
\* as one is possible. Nothing makes the user issue a command or the
\* connection go down. Every run of the model is finite, so a fair run ends
\* in a state where none of these steps is possible.
Scheduled ==
    \/ AcceptFail
    \/ \E s \in Streams : AcceptStream(s)
    \/ \E s \in Streams : ReadString(s)
    \/ \E s \in Streams : processCommand(s)
    \/ \E s \in Streams : downloadFile_Read(s)

DownloadSpec == ServerInit /\ [][DownloadNext]_vars /\ WF_vars(Scheduled)

\* what the client wrote on stream s after the newline of its command line
PayloadOf(s) ==
    LET k == IndexFrom(stream[s].sent, NewLine, 1) IN
    SubSeq(stream[s].sent, k + 1, Len(stream[s].sent))

\* handleUpload returned nil on stream s
Uploaded(s) == stream[s].result = "uploaded"

\* no other stream created the file stream s uploads to
AloneOnPath(s) ==
    \A t \in Streams \ {s} :
        stream[t].created => stream[t].path # stream[s].path

\* C24: when the upload of stream s has ended with success and no other
\* stream wrote the same path, the file at the path of the command holds the
\* bytes the client wrote after the newline of the command line, all of
\* them and in order, however the bytes were split into reads.
C24_UploadIntegrity ==
    \A s \in Streams :
        (Uploaded(s) /\ AloneOnPath(s)) =>
            /\ fs[stream[s].path].exists
            /\ fs[stream[s].path].data = PayloadOf(s)

\* the handler of stream s consumed every byte the stream delivered: none
\* was left behind in the reader of the command line
NothingBuffered(s) == stream[s].reader = <<>>

\* C25: when two streams have both ended an upload to the same path with
\* success, and neither lost bytes to the reader of its command line, the
\* file at that path holds the whole payload of one of the two.
C25_OneUploadWins ==
    \A s \in Streams, t \in Streams :
        (/\ s # t
         /\ Uploaded(s) /\ Uploaded(t)
         /\ stream[s].path = stream[t].path
         /\ NothingBuffered(s) /\ NothingBuffered(t)) =>
            fs[stream[s].path].data \in {PayloadOf(s), PayloadOf(t)}

\* downloadFile of the client has sent its command on stream s
DownloadIssued(s) ==
    /\ stream[s].client \in {"header", "data", "failed", "completed"}
    /\ HasPrefix(stream[s].sent, DownloadPrefix)

\* downloadFile ended with the contents of the remote file in its local file
DownloadCompleted(s) ==
    /\ stream[s].client = "completed"
    /\ stream[s].local = StoredFile

\* C26: a download the client has issued for the existing remote file, on
\* a connection that stays up, is completed: the server answers with the
\* header and the contents of the file and the client stores them.
C26_DownloadCompletes ==
    \A s \in Streams :
        (DownloadIssued(s) /\ stream[s].sent = DownloadCommand(<<"a">>))
            ~> (DownloadCompleted(s) \/ conn = "down")

\* the command of stream s was refused by processCommand
Refused(s) == stream[s].result \in {"unknown", "rejected"}

\* C27: a command that processCommand refuses has created no file, and
\* an upload that ended with success has written as many bytes to its file
\* as the command declared.
C27_SizeChecked ==
    \A s \in Streams :
        /\ Refused(s) => ~stream[s].created
        /\ Uploaded(s) => stream[s].received = stream[s].fileSize

\* the handler of stream s ends in this step
Ends(s) == stream[s].hpc \notin {"none", "done"} /\ stream'[s].hpc = "done"

\* C28: the step in which the handler of a stream ends, with a failure or
\* not, closes that stream and leaves the session open, the accept loop
\* running and every other stream as it was; handlers that have ended have
\* closed their stream; the accept loop ends only in a step where accepting
\* a stream fails, on a connection that is down, and the session is closed
\* only in that step.
C28_FailureStaysLocal ==
    [][/\ \A s \in Streams :
             /\ Ends(s) =>
                   /\ stream'[s].closed
                   /\ stream'[s].result # "none"
                   /\ accepting' = accepting
                   /\ sessionClosed' = sessionClosed
                   /\ \A t \in Streams \ {s} : stream'[t] = stream[t]
             /\ stream[s].hpc = "done" => stream[s].closed
       /\ (accepting /\ ~accepting') => (conn = "down" /\ sessionClosed')
       /\ (~sessionClosed /\ sessionClosed') => (accepting /\ ~accepting')
      ]_vars

\* C28 witness: one stream has ended on a refused command while the other
\* is in the middle of an upload it was accepted for, on an open session
\* whose accept loop runs
C28_Witness ==
    \E s \in Streams, t \in Streams :
        /\ s # t
        /\ Refused(s) /\ stream[s].closed /\ stream[s].hpc = "done"
        /\ stream[t].hpc = "upload" /\ stream[t].received > 0
        /\ ~stream[t].closed
        /\ accepting /\ ~sessionClosed /\ conn = "up"

====
